---- MODULE Spec2Model ----
(***************************************************************************)
(* Model of compute_top10 (src/compute_top10_demand.py): the loader's      *)
(* grouping of rows by lower-cased crop name, the per-key weighted         *)
(* aggregation, the anagram merger, the threshold match and the top-10     *)
(* ranking.                                                                *)
(*                                                                         *)
(* Crop names are sequences of ASCII codes.  Python floats are modelled as *)
(* exact rationals [n, d] in lowest terms (d > 0); the absent value None   *)
(* is the record with d = 0.  Binary rounding is outside the model: the     *)
(* inputs are small integers, whose products and sums binary64 holds       *)
(* exactly; quotients, and what is computed from them, are idealised.      *)
(***************************************************************************)
EXTENDS Integers, Sequences, FiniteSets, TLC

VARIABLES rows, peak, day, nread, merged, nagg, final_merged, nmerged,
          matched, nmatched, result, done, exercised, members

vars == <<rows, peak, day, nread, merged, nagg, final_merged, nmerged,
          matched, nmatched, result, done, exercised, members>>

(* ------------------------------ bounds --------------------------------- *)

\* rows of day_averages.csv in the small input family
MaxRows == 2
\* anagram spellings of one crop in the chain input family
ChainLen == 3
\* crops of the wide input family beyond the ten the ranker keeps
ExtraCrops == 1

(* ------------------------- numbers (floats) ---------------------------- *)

NoneVal == [n |-> 0, d |-> 0]

IsNone(x) == x.d = 0

Rat(k) == [n |-> k, d |-> 1]

Abs(k) == IF k < 0 THEN 0 - k ELSE k

RECURSIVE Gcd(_, _)
Gcd(a, b) == IF b = 0 THEN a ELSE Gcd(b, a % b)

\* n/d in lowest terms, d > 0
Norm(n, d) ==
    LET g == Gcd(Abs(n), d)
    IN  IF n < 0 THEN [n |-> 0 - (Abs(n) \div g), d |-> d \div g]
                 ELSE [n |-> n \div g, d |-> d \div g]

\* x + y
Add(x, y) == Norm(x.n * y.d + y.n * x.d, x.d * y.d)

\* avg * cnt (float times int)
MulInt(x, k) == Norm(x.n * k, x.d)

\* total / count, count > 0
DivInt(x, k) == Norm(x.n, x.d * k)

\* x >= y
Geq(x, y) == x.n * y.d >= y.n * x.d

\* x > y
Gt(x, y) == x.n * y.d > y.n * x.d

\* Python truthiness of an optional float: None and 0.0 are falsy
Falsy(x) == IsNone(x) \/ x.n = 0

\* (x or 0.0)
OrZero(x) == IF Falsy(x) THEN Rat(0) ELSE x

\* (x or y)
OrElse(x, y) == IF Falsy(x) THEN y ELSE x

(* ------------------------------ strings -------------------------------- *)

\* str.lower() on one ASCII code
Lower(c) == IF c >= 65 /\ c <= 90 THEN c + 32 ELSE c

\* str.lower()
LowerStr(s) == [i \in 1..Len(s) |-> Lower(s[i])]

RECURSIVE Strip(_)
\* str.strip() (blanks only)
Strip(s) ==
    IF s = <<>> THEN s
    ELSE IF Head(s) = 32 THEN Strip(Tail(s))
    ELSE IF s[Len(s)] = 32 THEN Strip(SubSeq(s, 1, Len(s) - 1))
    ELSE s

RECURSIVE InsertSorted(_, _)
InsertSorted(c, s) ==
    IF s = <<>> THEN <<c>>
    ELSE IF c <= Head(s) THEN <<c>> \o s
    ELSE <<Head(s)>> \o InsertSorted(c, Tail(s))

RECURSIVE SortedChars(_)
\* "".join(sorted(key))
SortedChars(s) == IF s = <<>> THEN <<>> ELSE InsertSorted(Head(s), SortedChars(Tail(s)))

(* ----------------------------- dictionaries ---------------------------- *)
\* A dict is the sequence of its items in insertion order; every item has a key.

IndexOf(d, k) ==
    IF \E i \in 1..Len(d) : d[i].key = k
    THEN CHOOSE i \in 1..Len(d) : d[i].key = k
    ELSE 0

\* d[k] = item: in place when k is present, appended otherwise
DictSet(d, item) ==
    LET i == IndexOf(d, item.key)
    IN  IF i = 0 THEN Append(d, item) ELSE [d EXCEPT ![i] = item]

(* ------------------------------ loader --------------------------------- *)

\* one iteration of load_day_averages: d.setdefault(key, []).append((crop, avg, cnt))
LoadOne(d, r) ==
    LET crop == Strip(r.crop)
        key  == LowerStr(crop)
        ent  == [orig |-> crop, avg |-> r.avg, cnt |-> r.cnt]
        i    == IndexOf(d, key)
    IN  IF crop = <<>> THEN d
        ELSE IF i = 0 THEN Append(d, [key |-> key, entries |-> <<ent>>])
        ELSE [d EXCEPT ![i].entries = Append(@, ent)]

(* ----------------------------- aggregator ------------------------------ *)

RECURSIVE AggLoopSkipZero(_, _, _)
\* AggLoop without the single-sample rule: a zero count discards the entry
AggLoopSkipZero(entries, i, acc) ==
    IF i > Len(entries) THEN acc
    ELSE LET e == entries[i]
         IN  IF IsNone(e.avg) \/ e.cnt = 0
             THEN AggLoopSkipZero(entries, i + 1, acc)
             ELSE AggLoopSkipZero(entries, i + 1,
                                  [tw   |-> Add(acc.tw, MulInt(e.avg, e.cnt)),
                                   tc   |-> acc.tc + e.cnt,
                                   name |-> e.orig])

RECURSIVE AggLoopNoWeight(_, _, _)
\* AggLoop with a zero-count entry added to the sum but not to the weight
AggLoopNoWeight(entries, i, acc) ==
    IF i > Len(entries) THEN acc
    ELSE LET e == entries[i]
         IN  IF IsNone(e.avg) \/ e.cnt = 0
             THEN IF ~IsNone(e.avg) /\ e.cnt = 0
                  THEN AggLoopNoWeight(entries, i + 1, [acc EXCEPT !.tw = Add(@, e.avg)])
                  ELSE AggLoopNoWeight(entries, i + 1, acc)
             ELSE AggLoopNoWeight(entries, i + 1,
                                  [tw   |-> Add(acc.tw, MulInt(e.avg, e.cnt)),
                                   tc   |-> acc.tc + e.cnt,
                                   name |-> e.orig])

RECURSIVE AggLoop(_, _, _)
\* the inner loop over one key's entries; acc = [tw, tc, name]
AggLoop(entries, i, acc) ==
    IF i > Len(entries) THEN acc
    ELSE LET e == entries[i]
         IN  IF IsNone(e.avg) \/ e.cnt = 0
             THEN IF ~IsNone(e.avg) /\ e.cnt = 0
                  THEN AggLoop(entries, i + 1,
                               [acc EXCEPT !.tw = Add(@, e.avg), !.tc = @ + 1])
                  ELSE AggLoop(entries, i + 1, acc)
             ELSE AggLoop(entries, i + 1,
                          [tw   |-> Add(acc.tw, MulInt(e.avg, e.cnt)),
                           tc   |-> acc.tc + e.cnt,
                           name |-> e.orig])

\* the fallback: the first entry with a present average, <<>> when there is none
Picked(entries) ==
    IF \E i \in 1..Len(entries) : ~IsNone(entries[i].avg)
    THEN LET i == CHOOSE j \in 1..Len(entries) :
                     /\ ~IsNone(entries[j].avg)
                     /\ \A k \in 1..(j - 1) : IsNone(entries[k].avg)
         IN  <<[orig |-> entries[i].orig, avg |-> entries[i].avg, cnt |-> entries[i].cnt]>>
    ELSE <<>>

\* AggregateOne that carries a key without any average as (absent, 0)
AggregateOneCarry(m, item) ==
    LET acc == AggLoop(item.entries, 1,
                       [tw |-> Rat(0), tc |-> 0, name |-> item.entries[1].orig])
    IN  IF acc.tc > 0
        THEN DictSet(m, [key |-> item.key, orig |-> acc.name,
                         avg |-> DivInt(acc.tw, acc.tc), cnt |-> acc.tc])
        ELSE DictSet(m, [key |-> item.key, orig |-> item.entries[1].orig,
                         avg |-> NoneVal, cnt |-> 0])

\* one iteration of the aggregation loop: the table after merged[key] is decided
AggregateOne(m, item) ==
    LET acc == AggLoop(item.entries, 1,
                       [tw |-> Rat(0), tc |-> 0, name |-> item.entries[1].orig])
        p   == Picked(item.entries)
    IN  IF acc.tc > 0
        THEN DictSet(m, [key |-> item.key, orig |-> acc.name,
                         avg |-> DivInt(acc.tw, acc.tc), cnt |-> acc.tc])
        ELSE IF p # <<>>
        THEN DictSet(m, [key |-> item.key, orig |-> p[1].orig,
                         avg |-> p[1].avg, cnt |-> p[1].cnt])
        ELSE m

\* whether the iteration stores a fallback pick
TakesFallback(item) ==
    /\ AggLoop(item.entries, 1,
               [tw |-> Rat(0), tc |-> 0, name |-> item.entries[1].orig]).tc <= 0
    /\ Picked(item.entries) # <<>>

(* ------------------------- equivalence merger -------------------------- *)

\* FindExisting that looks at the most recently inserted key only
FindExistingLast(fm, key) ==
    IF fm # <<>> /\ SortedChars(fm[Len(fm)].key) = SortedChars(key)
    THEN fm[Len(fm)].key
    ELSE <<>>

\* the search for an existing key with the same sorted letters: that key, or <<>>
FindExisting(fm, key) ==
    IF \E i \in 1..Len(fm) : SortedChars(fm[i].key) = SortedChars(key)
    THEN LET i == CHOOSE j \in 1..Len(fm) :
                     /\ SortedChars(fm[j].key) = SortedChars(key)
                     /\ \A k \in 1..(j - 1) : SortedChars(fm[k].key) # SortedChars(key)
         IN  fm[i].key
    ELSE <<>>

\* MergeRecords with the plain mean of the two averages
MergeRecordsPlainMean(prev, rec) ==
    [key  |-> prev.key,
     orig |-> prev.orig,
     avg  |-> DivInt(Add(OrZero(prev.avg), OrZero(rec.avg)), 2),
     cnt  |-> prev.cnt + rec.cnt]

\* MergeRecords that keeps the representative's weight instead of the sum
MergeRecordsKeepWeight(prev, rec) ==
    [key  |-> prev.key,
     orig |-> prev.orig,
     avg  |-> DivInt(Add(MulInt(OrZero(prev.avg), prev.cnt),
                         MulInt(OrZero(rec.avg), rec.cnt)), prev.cnt + rec.cnt),
     cnt  |-> prev.cnt]

\* MergeRecords that takes over the display name of the key folded in
MergeRecordsRename(prev, rec) ==
    [key  |-> prev.key,
     orig |-> rec.orig,
     avg  |-> DivInt(Add(MulInt(OrZero(prev.avg), prev.cnt),
                         MulInt(OrZero(rec.avg), rec.cnt)), prev.cnt + rec.cnt),
     cnt  |-> prev.cnt + rec.cnt]

\* the record stored under the found key when rec is folded into prev
MergeRecords(prev, rec) ==
    LET total_cnt == prev.cnt + rec.cnt
    IN  IF total_cnt > 0
        THEN [key  |-> prev.key,
              orig |-> prev.orig,
              avg  |-> DivInt(Add(MulInt(OrZero(prev.avg), prev.cnt),
                                  MulInt(OrZero(rec.avg), rec.cnt)), total_cnt),
              cnt  |-> total_cnt]
        ELSE [key  |-> prev.key,
              orig |-> prev.orig,
              avg  |-> OrElse(prev.avg, rec.avg),
              cnt  |-> total_cnt]

\* one iteration of the anagram loop
MergeOne(fm, rec) ==
    LET found == FindExisting(fm, rec.key)
    IN  IF found # <<>>
        THEN DictSet(fm, MergeRecords(fm[IndexOf(fm, found)], rec))
        ELSE DictSet(fm, rec)

\* the canonical keys folded into each record of final_merged (history)
MembersOne(mem, fm, rec) ==
    LET found == FindExisting(fm, rec.key)
    IN  IF found # <<>>
        THEN [mem EXCEPT ![IndexOf(fm, found)].keys = @ \cup {rec.key}]
        ELSE Append(mem, [key |-> rec.key, keys |-> {rec.key}])

\* the branches of the merger an iteration takes (history)
MergeBranches(fm, rec) ==
    LET found == FindExisting(fm, rec.key)
        prev  == fm[IndexOf(fm, found)]
    IN  IF found = <<>> THEN {}
        ELSE IF prev.cnt + rec.cnt > 0
        THEN IF IsNone(prev.avg) \/ IsNone(rec.avg) THEN {"absent_as_zero"} ELSE {}
        ELSE {"both_zero"}

(* --------------------------- threshold ranker -------------------------- *)

\* the number of rows compute_top10 returns at most
TopN == 10

\* MatchOne with a strict comparison against the threshold
MatchOneStrict(mt, item, pk) ==
    IF IsNone(item.avg) THEN mt
    ELSE IF item.key \notin DOMAIN pk THEN mt
    ELSE IF Gt(item.avg, pk[item.key])
    THEN Append(mt, [name |-> item.orig, avg |-> item.avg, thr |-> pk[item.key]])
    ELSE mt

\* one iteration of the match loop
MatchOne(mt, item, pk) ==
    IF IsNone(item.avg) THEN mt
    ELSE IF item.key \notin DOMAIN pk THEN mt
    ELSE IF Geq(item.avg, pk[item.key])
    THEN Append(mt, [name |-> item.orig, avg |-> item.avg, thr |-> pk[item.key]])
    ELSE mt

RECURSIVE InsertDesc(_, _)
\* x placed behind every row whose average is >= its own
InsertDesc(x, s) ==
    IF s = <<>> THEN <<x>>
    ELSE IF Geq(Head(s).avg, x.avg) THEN <<Head(s)>> \o InsertDesc(x, Tail(s))
    ELSE <<x>> \o s

RECURSIVE InsertBefore(_, _)
\* x placed in front of the rows whose average equals its own
InsertBefore(x, s) ==
    IF s = <<>> THEN <<x>>
    ELSE IF Gt(Head(s).avg, x.avg) THEN <<Head(s)>> \o InsertBefore(x, Tail(s))
    ELSE <<x>> \o s

RECURSIVE SortIntoBefore(_, _, _)
SortIntoBefore(s, i, acc) ==
    IF i > Len(s) THEN acc ELSE SortIntoBefore(s, i + 1, InsertBefore(s[i], acc))

\* a descending sort that reverses the rows of equal average
SortDescUnstable(s) == SortIntoBefore(s, 1, <<>>)

RECURSIVE SortInto(_, _, _)
SortInto(s, i, acc) ==
    IF i > Len(s) THEN acc ELSE SortInto(s, i + 1, InsertDesc(s[i], acc))

\* matched.sort(key=lambda x: x[1], reverse=True): stable, descending
SortDesc(s) == SortInto(s, 1, <<>>)

\* matched[:10]
Top(s) == SubSeq(s, 1, IF Len(s) < TopN THEN Len(s) ELSE TopN)

(* ------------------------------- inputs -------------------------------- *)

Row(c, a, k) == [crop |-> c, avg |-> a, cnt |-> k]

\* the small family: the case variants "ab", "Ab" and the anagram "ba"
SmallNames == {<<97, 98>>, <<65, 98>>, <<98, 97>>}

\* (average, count): no average, a zero count, a positive count, a negative average
SmallValues ==
    {<<NoneVal, 0>>, <<Rat(1), 0>>, <<Rat(1), 2>>, <<Rat(3), 0>>, <<Rat(3), 2>>,
     <<Rat(0 - 2), 2>>}

SmallRows == {Row(c, v[1], v[2]) : c \in SmallNames, v \in SmallValues}

SmallInputs == UNION {[1..n -> SmallRows] : n \in 0..MaxRows}

\* a threshold of 2 for the key "ab", or for the key "ba"
SmallPeaks == {(<<97, 98>>) :> Rat(2), (<<98, 97>>) :> Rat(2)}

\* crop names of the worked examples
wheat == <<119, 104, 101, 97, 116>>

WheatCap == <<87, 104, 101, 97, 116>>

jowar == <<106, 111, 119, 97, 114>>

jawor == <<106, 97, 119, 111, 114>>

rice == <<114, 105, 99, 101>>

RicePadded == <<32, 82, 105, 99, 101, 32>>

ragi == <<114, 97, 103, 105>>

\* wheat (100, 10) and Wheat (120, 5)
ScenarioA == <<Row(wheat, Rat(100), 10), Row(WheatCap, Rat(120), 5)>>

\* jowar (50, 4) and its anagram jawor (70, 6)
ScenarioB == <<Row(jowar, Rat(50), 4), Row(jawor, Rat(70), 6)>>

\* wheat as above and rice (150, 3)
ScenarioC == <<Row(wheat, Rat(100), 10), Row(WheatCap, Rat(120), 5), Row(rice, Rat(150), 3)>>

\* a lone entry (42, 0)
ScenarioD == <<Row(ragi, Rat(42), 0)>>

\* a blank name and a padded one
ScenarioE == <<Row(<<32>>, Rat(5), 1), Row(RicePadded, Rat(150), 3)>>

ScenarioInputs == {ScenarioA, ScenarioB, ScenarioC, ScenarioD, ScenarioE}

\* wheat -> 90, rice -> 200, jawor -> 60, ragi -> 42
ScenarioPeak ==
    (wheat :> Rat(90)) @@ (rice :> Rat(200)) @@ (jawor :> Rat(60)) @@ (ragi :> Rat(42))

\* the chain family: spellings of one crop, each with its own record, met in
\* every order, and the other crop "abd"
ChainSpellings ==
    <<(<<97, 98, 99>>), (<<98, 99, 97>>), (<<99, 97, 98>>), (<<97, 99, 98>>),
      (<<98, 97, 99>>), (<<99, 98, 97>>)>>

ChainRows ==
    {Row(ChainSpellings[i], Rat(i), 1 + (i % 2)) : i \in 1..ChainLen}
        \cup {Row(<<97, 98, 100>>, Rat(3), 2)}

\* every sequence of chain rows that names no crop twice
ChainInputs ==
    UNION {{s \in [1..n -> ChainRows] :
               \A i, j \in 1..n : i # j => s[i].crop # s[j].crop} :
           n \in 0..Cardinality(ChainRows)}

\* a threshold for the spelling "bca" only
ChainPeak == (<<98, 99, 97>>) :> Rat(2)

\* the wide family: TopN + ExtraCrops one-letter crops, averages 1 or 2
WideCrops == TopN + ExtraCrops

WideInputs ==
    {[i \in 1..WideCrops |-> Row(<<96 + i>>, Rat(a[i]), 1)] : a \in [1..WideCrops -> {1, 2}]}

\* threshold 2 for the even crops, 1 for the odd ones
WidePeak == [k \in {<<96 + i>> : i \in 1..WideCrops} |-> Rat(2 - ((k[1] - 96) % 2))]

(* --------------------------- the state machine ------------------------- *)

Blank ==
    /\ day = <<>>
    /\ nread = 0
    /\ merged = <<>>
    /\ nagg = 0
    /\ final_merged = <<>>
    /\ nmerged = 0
    /\ matched = <<>>
    /\ nmatched = 0
    /\ result = <<>>
    /\ done = FALSE
    /\ exercised = {}
    /\ members = <<>>

Init ==
    /\ \/ rows \in SmallInputs /\ peak \in SmallPeaks
       \/ rows \in ScenarioInputs /\ peak = ScenarioPeak
       \/ rows \in ChainInputs /\ peak = ChainPeak
    /\ Blank

InitWide ==
    /\ \/ rows \in WideInputs /\ peak = WidePeak
       \/ rows \in ScenarioInputs /\ peak = ScenarioPeak
    /\ Blank

\* load_day_averages: one row of the file
LoadRow ==
    /\ nread < Len(rows)
    /\ day' = LoadOne(day, rows[nread + 1])
    /\ nread' = nread + 1
    /\ UNCHANGED <<rows, peak, merged, nagg, final_merged, nmerged, matched,
                   nmatched, result, done, exercised, members>>

\* one key of the aggregation loop
AggregateKey ==
    /\ nread = Len(rows)
    /\ nagg < Len(day)
    /\ merged' = AggregateOne(merged, day[nagg + 1])
    /\ nagg' = nagg + 1
    /\ exercised' = exercised \cup
           (IF TakesFallback(day[nagg + 1]) THEN {"fallback_pick"} ELSE {})
    /\ UNCHANGED <<rows, peak, day, nread, final_merged, nmerged, matched,
                   nmatched, result, done, members>>

\* one key of the anagram loop
MergeKey ==
    /\ nread = Len(rows)
    /\ nagg = Len(day)
    /\ nmerged < Len(merged)
    /\ final_merged' = MergeOne(final_merged, merged[nmerged + 1])
    /\ members' = MembersOne(members, final_merged, merged[nmerged + 1])
    /\ exercised' = exercised \cup MergeBranches(final_merged, merged[nmerged + 1])
    /\ nmerged' = nmerged + 1
    /\ UNCHANGED <<rows, peak, day, nread, merged, nagg, matched, nmatched,
                   result, done>>

\* one record of the match loop
MatchKey ==
    /\ nread = Len(rows)
    /\ nagg = Len(day)
    /\ nmerged = Len(merged)
    /\ nmatched < Len(final_merged)
    /\ matched' = MatchOne(matched, final_merged[nmatched + 1], peak)
    /\ exercised' = exercised \cup
           (IF IsNone(final_merged[nmatched + 1].avg) THEN {"rank_absent"} ELSE {})
    /\ nmatched' = nmatched + 1
    /\ UNCHANGED <<rows, peak, day, nread, merged, nagg, final_merged, nmerged,
                   result, done, members>>

\* the sort and the slice
SortTop ==
    /\ nread = Len(rows)
    /\ nagg = Len(day)
    /\ nmerged = Len(merged)
    /\ nmatched = Len(final_merged)
    /\ ~done
    /\ matched' = SortDesc(matched)
    /\ result' = Top(SortDesc(matched))
    /\ done' = TRUE
    /\ UNCHANGED <<rows, peak, day, nread, merged, nagg, final_merged, nmerged,
                   nmatched, exercised, members>>

Next == LoadRow \/ AggregateKey \/ MergeKey \/ MatchKey \/ SortTop

Spec == Init /\ [][Next]_vars

SpecWide == InitWide /\ [][Next]_vars

(* --------------------- vocabulary of the properties -------------------- *)

Loaded == nread = Len(rows)

Aggregated == Loaded /\ nagg = Len(day)

MergeDone == Aggregated /\ nmerged = Len(merged)

\* the state right after the anagram loop, before the ranker starts
JustMerged == MergeDone /\ nmatched = 0 /\ ~done

Sig(k) == SortedChars(k)

RECURSIVE SumInts(_, _)
\* the sum of f[x] over the finite set S
SumInts(f, S) ==
    IF S = {} THEN 0
    ELSE LET x == CHOOSE y \in S : TRUE IN f[x] + SumInts(f, S \ {x})

RECURSIVE SumRats(_, _)
SumRats(f, S) ==
    IF S = {} THEN Rat(0)
    ELSE LET x == CHOOSE y \in S : TRUE IN Add(f[x], SumRats(f, S \ {x}))

\* entries of a key that carry an average, split by their sample count
Counted(E) == {i \in 1..Len(E) : ~IsNone(E[i].avg) /\ E[i].cnt > 0}

Uncounted(E) == {i \in 1..Len(E) : ~IsNone(E[i].avg) /\ E[i].cnt = 0}

ExpectedWeight(E) ==
    SumInts([i \in 1..Len(E) |-> E[i].cnt], Counted(E)) + Cardinality(Uncounted(E))

ExpectedSum(E) ==
    Add(SumRats([i \in 1..Len(E) |-> MulInt(E[i].avg, E[i].cnt)], Counted(E)),
        SumRats([i \in 1..Len(E) |-> E[i].avg], Uncounted(E)))

\* the record of key k in a table
Rec(t, k) == t[IndexOf(t, k)]

Has(t, k) == IndexOf(t, k) # 0

\* the permutations of 1..n
Perms(n) == {p \in [1..n -> 1..n] : \A i, j \in 1..n : i # j => p[i] # p[j]}

RECURSIVE MergeAll(_, _, _)
\* the anagram loop run over the table m from item i on; acc = [fm, mem]
MergeAll(m, i, acc) ==
    IF i > Len(m) THEN acc
    ELSE MergeAll(m, i + 1, [fm  |-> MergeOne(acc.fm, m[i]),
                             mem |-> MembersOne(acc.mem, acc.fm, m[i])])

\* the anagram loop run with the keys of merged met in the order p
Reordered(p) ==
    MergeAll([i \in 1..Len(merged) |-> merged[p[i]]], 1, [fm |-> <<>>, mem |-> <<>>])

\* what the anagram loop yields for each order of the keys of merged
Reorderings == {Reordered(p) : p \in Perms(Len(merged))}

(* ------------------------------ aggregator ----------------------------- *)

\* the keys of day the aggregation loop has been through
Processed == 1..nagg

\* C3: for every key the aggregation loop has processed, with W = (sum of the
\* counts of its entries with an average and a count > 0) + (number of its entries
\* with an average and a count of 0): when W > 0 the key's record has weight W and
\* average (sum of average*count over the former + sum of average over the
\* latter) / W; entries without an average add nothing.  The lone (42, 0) entry
\* aggregates to (42, 1); wheat (100, 10) with Wheat (120, 5) to 1600/15, weight 15.
Thm_C3 ==
    /\ \A i \in Processed :
          LET E == day[i].entries
              W == ExpectedWeight(E)
          IN  W > 0 =>
                 /\ Has(merged, day[i].key)
                 /\ Rec(merged, day[i].key).cnt = W
                 /\ Rec(merged, day[i].key).avg = DivInt(ExpectedSum(E), W)
    /\ (rows = ScenarioD /\ nagg = 1) =>
          /\ Len(merged) = 1
          /\ merged[1].avg = Rat(42)
          /\ merged[1].cnt = 1
    /\ (rows = ScenarioA /\ nagg = 1) =>
          /\ Len(merged) = 1
          /\ merged[1].avg = Norm(1600, 15)
          /\ merged[1].cnt = 15

\* a key with a counted entry, a zero-count entry and an average between the two
Wit_C3 ==
    \E i \in Processed :
       /\ Counted(day[i].entries) # {}
       /\ Uncounted(day[i].entries) # {}
       /\ Has(merged, day[i].key)
       /\ Rec(merged, day[i].key).avg = Norm(7, 3)

\* the averages present among a key's entries
PresentAvgs(E) == {E[i].avg : i \in Counted(E) \cup Uncounted(E)}

Thm_C9 ==
    /\ \A i \in 1..Len(merged) : ~IsNone(merged[i].avg) /\ merged[i].cnt >= 1
    /\ \A i \in 1..Len(final_merged) :
          ~IsNone(final_merged[i].avg) /\ final_merged[i].cnt >= 1
    /\ \A i \in Processed :
          (\A j \in 1..Len(day[i].entries) : IsNone(day[i].entries[j].avg))
             => ~Has(merged, day[i].key)
    /\ exercised = {}

\* a finished run in which one key had no average at all and another had only
\* zero-count entries
Wit_C9 ==
    /\ done
    /\ \E i \in Processed : \A j \in 1..Len(day[i].entries) : IsNone(day[i].entries[j].avg)
    /\ \E i \in Processed :
          /\ Counted(day[i].entries) = {}
          /\ Uncounted(day[i].entries) # {}

(* --------------------------- equivalence merger ------------------------ *)

\* the records of final_merged
Groups == 1..Len(final_merged)

\* the keys the anagram loop has been through that share the signature of k
SameSig(k) == {merged[j].key : j \in {x \in 1..nmerged : Sig(merged[x].key) = Sig(k)}}

\* C4: every record of final_merged has as weight the sum of the weights of the
\* aggregated records of all keys with its signature folded so far, and as average
\* (sum of avg_i * w_i) / (sum of w_i) over them.  jowar (50, 4) and jawor (70, 6)
\* merge to (62, 10); two keys with equal records (avg, w) merge to (avg, 2w).
Thm_C4 ==
    /\ Len(members) = Len(final_merged)
    /\ \A g \in Groups :
          LET K == members[g].keys
              w == [k \in K |-> Rec(merged, k).cnt]
              s == [k \in K |-> MulInt(Rec(merged, k).avg, Rec(merged, k).cnt)]
          IN  /\ K = SameSig(final_merged[g].key)
              /\ final_merged[g].cnt = SumInts(w, K)
              /\ final_merged[g].avg = DivInt(SumRats(s, K), SumInts(w, K))
              /\ \A a, b \in K :
                    (/\ K = {a, b}
                     /\ a # b
                     /\ Rec(merged, a).avg = Rec(merged, b).avg
                     /\ Rec(merged, a).cnt = Rec(merged, b).cnt)
                    => /\ final_merged[g].avg = Rec(merged, a).avg
                       /\ final_merged[g].cnt = 2 * Rec(merged, a).cnt
    /\ (rows = ScenarioB /\ MergeDone) =>
          /\ Len(final_merged) = 1
          /\ final_merged[1].avg = Rat(62)
          /\ final_merged[1].cnt = 10

\* three spellings with different records folded into one record
Wit_C4 ==
    /\ MergeDone
    /\ \E g \in Groups :
          /\ Cardinality(members[g].keys) >= 3
          /\ \E a, b \in members[g].keys : Rec(merged, a).avg # Rec(merged, b).avg

\* the greatest element of a non-empty set of integers
MaxOf(S) == CHOOSE x \in S : \A y \in S : y <= x

\* the name the aggregation loop keeps for a key with entries E
ChosenName(E) == IF Counted(E) = {} THEN E[1].orig ELSE E[MaxOf(Counted(E))].orig

\* the name of the last entry of E that carries an average
LastContributor(E) == E[MaxOf(Counted(E) \cup Uncounted(E))].orig

\* the first and the last key of a group in the order the anagram loop met them
FirstKey(K) == merged[CHOOSE j \in 1..Len(merged) :
                         merged[j].key \in K /\ \A x \in 1..(j - 1) : merged[x].key \notin K].key

LastKey(K) == merged[MaxOf({j \in 1..Len(merged) : merged[j].key \in K})].key

Partition(mem) == {mem[i].keys : i \in 1..Len(mem)}

\* C7: final_merged never holds two keys with the same signature, every record
\* has absorbed exactly the keys with its signature, and for every order in which
\* the keys of the per-key table are met the anagram loop yields one record per
\* signature and the same sets of keys.
Thm_C7 ==
    /\ \A g, h \in Groups : g # h => Sig(final_merged[g].key) # Sig(final_merged[h].key)
    /\ Len(members) = Len(final_merged)
    /\ \A g \in Groups : members[g].keys = SameSig(final_merged[g].key)
    /\ JustMerged =>
          \A r \in Reorderings :
             /\ Partition(r.mem) = Partition(members)
             /\ Len(r.fm) = Cardinality({Sig(merged[j].key) : j \in 1..Len(merged)})
             /\ \A g, h \in 1..Len(r.fm) :
                   g # h => Sig(r.fm[g].key) # Sig(r.fm[h].key)

\* a chain of three spellings collapsed into one record beside another crop
Wit_C7 ==
    /\ JustMerged
    /\ Len(final_merged) = 2
    /\ \E g \in Groups : Cardinality(members[g].keys) >= 3

\* C10: when every aggregated record has positive weight, every order of the keys
\* yields for each signature a record of the same weight and the same average;
\* its key is one of the group's keys and its name that key's name.
Thm_C10 ==
    (JustMerged /\ \A i \in 1..Len(merged) : merged[i].cnt > 0) =>
       \A r \in Reorderings :
          /\ Len(r.fm) = Len(final_merged)
          /\ \A g \in Groups :
                \E h \in 1..Len(r.fm) :
                   /\ r.fm[h].key \in members[g].keys
                   /\ r.fm[h].orig = Rec(merged, r.fm[h].key).orig
                   /\ r.fm[h].cnt = final_merged[g].cnt
                   /\ r.fm[h].avg = final_merged[g].avg

\* three spellings with different records, and an order of the keys that gives
\* the record another representative
Wit_C10 ==
    /\ JustMerged
    /\ \E g \in Groups :
          /\ Cardinality(members[g].keys) >= 3
          /\ \E a, b \in members[g].keys : Rec(merged, a).avg # Rec(merged, b).avg
          /\ \E r \in Reorderings :
                \E h \in 1..Len(r.fm) :
                   /\ r.fm[h].key \in members[g].keys
                   /\ r.fm[h].key # final_merged[g].key

(* ---------------------------- threshold ranker ------------------------- *)

MatchDone == MergeDone /\ nmatched = Len(final_merged)

\* the rows the ranker holds: the qualifying ones, and the ones returned
Held == {matched[i] : i \in 1..Len(matched)} \cup {result[i] : i \in 1..Len(result)}

\* C2: every row the ranker holds has an average >= its threshold, and that
\* threshold is the one stored for a key of the row's record; a record whose
\* average is below the threshold of each of its keys that has one (rice: 150
\* against 200), or none of whose keys has a threshold, is never held; a record
\* whose average equals the threshold of its key qualifies.
Thm_C2 ==
    /\ \A row \in Held :
          /\ Geq(row.avg, row.thr)
          /\ \E g \in Groups :
                /\ row.name = final_merged[g].orig
                /\ row.avg = final_merged[g].avg
                /\ \E k \in members[g].keys : k \in DOMAIN peak /\ peak[k] = row.thr
    /\ \A g \in 1..nmatched :
          (\A k \in members[g].keys : k \notin DOMAIN peak \/ Gt(peak[k], final_merged[g].avg))
             => \A row \in Held : row.name # final_merged[g].orig
    /\ \A g \in 1..nmatched :
          (/\ final_merged[g].key \in DOMAIN peak
           /\ peak[final_merged[g].key] = final_merged[g].avg)
             => \E i \in 1..Len(matched) : matched[i].name = final_merged[g].orig
    /\ (rows = ScenarioC /\ done) =>
          result = <<[name |-> WheatCap, avg |-> Norm(320, 3), thr |-> Rat(90)]>>

\* a finished run that returned a record sitting exactly on its threshold and
\* left another record out
Wit_C2 ==
    /\ done
    /\ \E i \in 1..Len(result) : result[i].avg = result[i].thr
    /\ Len(result) < Len(final_merged)

\* C6 as stated: a record qualifies as soon as any key folded into it has a
\* threshold that its average reaches.
Orig_C6 ==
    MatchDone =>
       \A g \in Groups :
          (\E k \in members[g].keys :
              k \in DOMAIN peak /\ Geq(final_merged[g].avg, peak[k]))
          => \E i \in 1..Len(matched) : matched[i].name = final_merged[g].orig

\* the record a returned row was made from
Pos(row) == IndexOf(final_merged, LowerStr(row.name))

\* the records that qualify
Qualifying ==
    {g \in Groups : /\ ~IsNone(final_merged[g].avg)
                    /\ final_merged[g].key \in DOMAIN peak
                    /\ Geq(final_merged[g].avg, peak[final_merged[g].key])}

Returned == {Pos(result[i]) : i \in 1..Len(result)}

\* C1: the result is the first min(10, k) of the k qualifying records in stable
\* descending order of average: at most 10 rows, each made from a qualifying
\* record, averages never increasing, rows of equal average in the order of their
\* records in final_merged, and no record left out that has a larger average than
\* a returned one or an equal average and an earlier place.
Thm_C1 ==
    done =>
       /\ Len(result) <= TopN
       /\ Len(result) = IF Cardinality(Qualifying) < TopN
                        THEN Cardinality(Qualifying) ELSE TopN
       /\ \A i \in 1..Len(result) :
             /\ Pos(result[i]) \in Qualifying
             /\ result[i].avg = final_merged[Pos(result[i])].avg
       /\ \A i, j \in 1..Len(result) :
             i < j =>
                /\ Pos(result[i]) # Pos(result[j])
                /\ Geq(result[i].avg, result[j].avg)
                /\ result[i].avg = result[j].avg => Pos(result[i]) < Pos(result[j])
       /\ \A q \in Qualifying \ Returned :
             \A i \in 1..Len(result) :
                /\ ~Gt(final_merged[q].avg, result[i].avg)
                /\ final_merged[q].avg = result[i].avg => q > Pos(result[i])

\* more than ten records qualify, the result holds rows of equal average, and a
\* record is left out that ties with a returned one
Wit_C1 ==
    /\ done
    /\ Cardinality(Qualifying) > TopN
    /\ \E i, j \in 1..Len(result) : i < j /\ result[i].avg = result[j].avg
    /\ \E q \in Qualifying \ Returned :
          \E i \in 1..Len(result) : final_merged[q].avg = result[i].avg

====
